---- MODULE Spec2Model ----
(***************************************************************************)
(* Model of the mandelbrot crate (src/src/lib.rs, src/src/bin/mandelbrot.rs):*)
(* the coordinate mapper, the two escape-time evaluators, the raster       *)
(* composer, the ASCII composer and printer, and the index/round-trip      *)
(* helpers of the crate's tests.                                           *)
(*                                                                         *)
(* f64 arithmetic is IEEE-754 binary64 with round-to-nearest-even, carried *)
(* out on 53-bit significands held in two 28-bit halves (TLC integers are  *)
(* 32 bits wide).  The operators are defined on zero and the normal        *)
(* numbers; RoundPack has no case for a result outside the normal range,   *)
(* so a run that would overflow or underflow stops with an evaluation      *)
(* error instead of continuing with a wrong value.                         *)
(***************************************************************************)
EXTENDS Integers, Sequences, FiniteSets, TLC

(***************************** binary64 ************************************)
\* An f64 is <<s, e, hi, lo>>: sign s (1 = negative) and magnitude
\* (hi * 2^28 + lo) * 2^e.  A normal number has 2^24 <= hi < 2^25 (a 53-bit
\* significand); zero is <<s, 0, 0, 0>>.  Intermediate values are passed as
\* operator arguments, which TLC evaluates once.
W14 == 2^14
W24 == 2^24
W25 == 2^25
W27 == 2^27
W28 == 2^28

Pow2(n) == 2^n

FZero(s) == <<s, 0, 0, 0>>
IsZero(p) == p[3] = 0 /\ p[4] = 0
XorSign(p, q) == IF p[1] = q[1] THEN 0 ELSE 1
Borrow(a, b) == IF a < b THEN 1 ELSE 0

\* number of significant bits of v, 0 <= v < 2^31
BitLen2(v) == IF v < 2 THEN v ELSE 2
BitLen4(v) == IF v < 4 THEN BitLen2(v) ELSE 2 + BitLen2(v \div 4)
BitLen8(v) == IF v < 16 THEN BitLen4(v) ELSE 4 + BitLen4(v \div 16)
BitLen16(v) == IF v < 256 THEN BitLen8(v) ELSE 8 + BitLen8(v \div 256)
BitLen(v) == IF v < 65536 THEN BitLen16(v) ELSE 16 + BitLen16(v \div 65536)

\* the result <<s, e, h, l>>, defined only inside the normal range
Normal(s, e, h, l) == CASE e + 52 >= -1022 /\ e + 52 <= 1023 -> <<s, e, h, l>>

\* Round-to-nearest-even of S * 2^(e-3), S = hs*2^28 + ls in [2^55, 2^56): the
\* low three bits of S are the guard, round and sticky bits.
RoundLow(low3, lm) == IF low3 > 4 \/ (low3 = 4 /\ lm % 2 = 1) THEN lm + 1 ELSE lm
RoundHigh(s, e, h, l) == IF h = W25 THEN Normal(s, e + 1, W24, l) ELSE Normal(s, e, h, l)
RoundCarry(s, e, hm, l1) == IF l1 = W28 THEN RoundHigh(s, e, hm + 1, 0) ELSE RoundHigh(s, e, hm, l1)
RoundPack(s, e, hs, ls) ==
  RoundCarry(s, e, hs \div 8, RoundLow(ls % 8, (ls \div 8) + (hs % 8) * W25))
RoundPair(s, e, pr) == RoundPack(s, e, pr[1], pr[2])

\* <<h, l>> with a lost nonzero bit jammed into the lowest bit
Jam(h, l, lost) == <<h, IF lost /\ l % 2 = 0 THEN l + 1 ELSE l>>

\* (hs, ls) shifted right by d bits, jamming what is shifted out
ShiftRightJam(hs, ls, d) ==
  IF d = 0 THEN <<hs, ls>>
  ELSE IF d < 28
       THEN Jam(hs \div Pow2(d), (ls \div Pow2(d)) + (hs % Pow2(d)) * Pow2(28 - d),
                ls % Pow2(d) # 0)
  ELSE IF d < 56
       THEN Jam(0, hs \div Pow2(d - 28), (hs % Pow2(d - 28) # 0) \/ ls # 0)
  ELSE Jam(0, 0, hs # 0 \/ ls # 0)

\* (hs, ls) shifted left by n bits; <<hs', ls', n>>
ShiftLeft(hs, ls, n) ==
  IF n = 0 THEN <<hs, ls, 0>>
  ELSE IF n < 28
       THEN <<hs * Pow2(n) + (ls \div Pow2(28 - n)), (ls % Pow2(28 - n)) * Pow2(n), n>>
  ELSE <<ls * Pow2(n - 28), 0, n>>

\* nonzero (hs, ls) < 2^56 shifted left until its top bit is bit 55
NormalizeLeft(hs, ls) ==
  ShiftLeft(hs, ls, IF hs # 0 THEN 28 - BitLen(hs) ELSE 56 - BitLen(ls))

\* |p| >= |q| for nonzero p, q
MantGe(p, q) == p[3] > q[3] \/ (p[3] = q[3] /\ p[4] >= q[4])
MagGe(p, q) == p[2] > q[2] \/ (p[2] = q[2] /\ MantGe(p, q))

\* addition of nonzero a, b with |a| >= |b|: both significands get three extra
\* low bits, b's is aligned to a's exponent, then they are added or subtracted
RoundShifted(s, e, nz) == RoundPack(s, e - nz[3], nz[1], nz[2])
AddDiff(s, e, dh, dl) ==
  IF dh = 0 /\ dl = 0 THEN FZero(0) ELSE RoundShifted(s, e, NormalizeLeft(dh, dl))
AddSum(s, e, sh, sl) ==
  IF sh >= W28 THEN RoundPair(s, e + 1, ShiftRightJam(sh, sl, 1)) ELSE RoundPack(s, e, sh, sl)
AddAligned(s, e, xh, xl, sb, y) ==
  IF s = sb
  THEN AddSum(s, e, xh + y[1] + ((xl + y[2]) \div W28), (xl + y[2]) % W28)
  ELSE AddDiff(s, e, xh - y[1] - Borrow(xl, y[2]), xl + Borrow(xl, y[2]) * W28 - y[2])
AddOrdered(a, b) ==
  AddAligned(a[1], a[2], a[3] * 8 + (a[4] \div W25), (a[4] % W25) * 8, b[1],
             ShiftRightJam(b[3] * 8 + (b[4] \div W25), (b[4] % W25) * 8, a[2] - b[2]))

\* p + q
FAdd(p, q) ==
  IF IsZero(p) THEN (IF IsZero(q) THEN FZero(IF p[1] = 1 /\ q[1] = 1 THEN 1 ELSE 0) ELSE q)
  ELSE IF IsZero(q) THEN p
  ELSE IF MagGe(p, q) THEN AddOrdered(p, q) ELSE AddOrdered(q, p)

FNeg(p) == <<1 - p[1], p[2], p[3], p[4]>>
\* p - q
FSub(p, q) == FAdd(p, FNeg(q))

\* carries of a column sum in base 2^14
Carry1(k0, k1) == k1 + (k0 \div W14)
Carry2(k0, k1, k2) == k2 + (Carry1(k0, k1) \div W14)
Carry3(k0, k1, k2, k3) == k3 + (Carry2(k0, k1, k2) \div W14)
Carry4(k0, k1, k2, k3, k4) == k4 + (Carry3(k0, k1, k2, k3) \div W14)
Carry5(k0, k1, k2, k3, k4, k5) == k5 + (Carry4(k0, k1, k2, k3, k4) \div W14)
Carry6(k0, k1, k2, k3, k4, k5, k6) == k6 + (Carry5(k0, k1, k2, k3, k4, k5) \div W14)

\* the 106-bit product as four 28-bit words w3..w0, in [2^104, 2^106): its top
\* 56 bits are kept and the rest is jammed
MulShift(s, e, w3, w2, w1, w0, t) ==
  RoundPair(s, e + 28 + t + 3,
            Jam(w3 * Pow2(28 - t) + (w2 \div Pow2(t)),
                (w2 % Pow2(t)) * Pow2(28 - t) + (w1 \div Pow2(t)),
                w1 % Pow2(t) # 0 \/ w0 # 0))
MulWords(s, e, w3, w2, w1, w0) ==
  MulShift(s, e, w3, w2, w1, w0, IF w3 >= 2^21 THEN 22 ELSE 21)
MulCols(s, e, k0, k1, k2, k3, k4, k5, k6) ==
  MulWords(s, e,
           Carry6(k0, k1, k2, k3, k4, k5, k6),
           (Carry5(k0, k1, k2, k3, k4, k5) % W14) * W14 + (Carry4(k0, k1, k2, k3, k4) % W14),
           (Carry3(k0, k1, k2, k3) % W14) * W14 + (Carry2(k0, k1, k2) % W14),
           (Carry1(k0, k1) % W14) * W14 + (k0 % W14))
MulLimbs(s, e, a3, a2, a1, a0, b3, b2, b1, b0) ==
  MulCols(s, e, a0 * b0,
          a1 * b0 + a0 * b1,
          a2 * b0 + a1 * b1 + a0 * b2,
          a3 * b0 + a2 * b1 + a1 * b2 + a0 * b3,
          a3 * b1 + a2 * b2 + a1 * b3,
          a3 * b2 + a2 * b3,
          a3 * b3)

\* p * q: the significands are multiplied in base-2^14 limbs
FMul(p, q) ==
  IF IsZero(p) \/ IsZero(q) THEN FZero(XorSign(p, q))
  ELSE MulLimbs(XorSign(p, q), p[2] + q[2],
                p[3] \div W14, p[3] % W14, p[4] \div W14, p[4] % W14,
                q[3] \div W14, q[3] % W14, q[4] \div W14, q[4] % W14)

\* One base-2^14 digit of a long division: for r = rh*2^28 + rl < d = dh*2^28 + dl,
\* <<q, rh', rl'>> with q = floor(r * 2^14 / d) and r' = r * 2^14 - q * d.  The
\* digit is estimated from the leading bits (never too large, at most 2 too
\* small) and corrected by at most two subtractions of d.
DivLast(dh, dl, q, h, l) == CASE h < dh \/ (h = dh /\ l < dl) -> <<q, h, l>>
DivFix1(dh, dl, q, h, l) ==
  IF h > dh \/ (h = dh /\ l >= dl)
  THEN DivLast(dh, dl, q + 1, h - dh - Borrow(l, dl), l + Borrow(l, dl) * W28 - dl)
  ELSE <<q, h, l>>
DivFix(dh, dl, q, h, l) ==
  IF h > dh \/ (h = dh /\ l >= dl)
  THEN DivFix1(dh, dl, q + 1, h - dh - Borrow(l, dl), l + Borrow(l, dl) * W28 - dl)
  ELSE <<q, h, l>>
\* r * 2^14 (words xh, xm, xl) minus est * d (words ph, pm, pl)
DivRem(dh, dl, est, xl, xm, xh, pl, pm, ph) ==
  DivFix(dh, dl, est, xm - pm - Borrow(xl, pl) + (xh - ph) * W28,
         xl + Borrow(xl, pl) * W28 - pl)
DivSub(rh, rl, dh, dl, est, k0, k1, k2, k3) ==
  DivRem(dh, dl, est,
         (rl % W14) * W14, (rh % W14) * W14 + (rl \div W14), rh \div W14,
         (Carry1(k0, k1) % W14) * W14 + (k0 % W14),
         (Carry3(k0, k1, k2, k3) % W14) * W14 + (Carry2(k0, k1, k2) % W14),
         Carry3(k0, k1, k2, k3) \div W14)
DivTimes(rh, rl, dh, dl, est) ==
  DivSub(rh, rl, dh, dl, est,
         est * (dl % W14), est * (dl \div W14), est * (dh % W14), est * (dh \div W14))
DivDigit(rh, rl, dh, dl) ==
  DivTimes(rh, rl, dh, dl, ((rh * 32) + (rl \div (2^23))) \div ((dh \div 512) + 1))

\* the quotient 2^56 * lead + qh * 2^28 + ql of the significands, rounded
DivRound(s, e, lead, qh, ql, rest) ==
  IF lead
  THEN RoundPair(s, e - 52, Jam(W27 + (qh \div 2), (qh % 2) * W27 + (ql \div 2),
                                rest \/ ql % 2 = 1))
  ELSE RoundPair(s, e - 53, Jam(qh, ql, rest))
DivEnd(s, e, lead, qh, q1, g0) ==
  DivRound(s, e, lead, qh, q1 * W14 + g0[1], g0[2] # 0 \/ g0[3] # 0)
DivRun0(s, e, lead, dh, dl, qh, g1) ==
  DivEnd(s, e, lead, qh, g1[1], DivDigit(g1[2], g1[3], dh, dl))
DivRun1(s, e, lead, dh, dl, q3, g2) ==
  DivRun0(s, e, lead, dh, dl, q3 * W14 + g2[1], DivDigit(g2[2], g2[3], dh, dl))
DivRun2(s, e, lead, dh, dl, g3) ==
  DivRun1(s, e, lead, dh, dl, g3[1], DivDigit(g3[2], g3[3], dh, dl))
DivRun(s, e, lead, rh, rl, dh, dl) ==
  DivRun2(s, e, lead, dh, dl, DivDigit(rh, rl, dh, dl))

\* p / q for q # 0: the leading quotient bit, then four base-2^14 digits
FDiv(p, q) ==
  CASE ~IsZero(q) ->
    IF IsZero(p) THEN FZero(XorSign(p, q))
    ELSE IF MantGe(p, q)
         THEN DivRun(XorSign(p, q), p[2] - q[2], TRUE,
                     p[3] - q[3] - Borrow(p[4], q[4]), p[4] + Borrow(p[4], q[4]) * W28 - q[4],
                     q[3], q[4])
         ELSE DivRun(XorSign(p, q), p[2] - q[2], FALSE, p[3], p[4], q[3], q[4])

\* n as f64 for 0 <= n < 2^31 (exact)
FromBits(n, k) ==
  IF k <= 25 THEN <<0, k - 53, n * Pow2(25 - k), 0>>
  ELSE <<0, k - 53, n \div Pow2(k - 25), (n % Pow2(k - 25)) * Pow2(53 - k)>>
FromU32(n) == IF n = 0 THEN FZero(0) ELSE FromBits(n, BitLen(n))

\* p * 2^k (exact)
FScale(p, k) == IF IsZero(p) THEN p ELSE <<p[1], p[2] + k, p[3], p[4]>>

\* p > q, p <= q
FGt(p, q) ==
  IF IsZero(p) THEN ~IsZero(q) /\ q[1] = 1
  ELSE IF IsZero(q) THEN p[1] = 0
  ELSE IF p[1] # q[1] THEN p[1] = 0
  ELSE IF p[1] = 0 THEN ~MagGe(q, p) ELSE ~MagGe(p, q)
FLe(p, q) == ~FGt(p, q)

\* f64::round (ties away from zero) followed by `as u32` (negative values
\* saturate to 0); defined for results below 2^30
RoundMag(h, l, sh) ==
  CASE sh >= 54 -> 0
    [] sh >= 30 /\ sh <= 53 -> ((h \div Pow2(sh - 29)) + 1) \div 2
    [] sh >= 24 /\ sh <= 29 -> (h * Pow2(29 - sh) + (l \div Pow2(sh - 1)) + 1) \div 2
RoundToU32(p) == IF IsZero(p) \/ p[1] = 1 THEN 0 ELSE RoundMag(p[3], p[4], -p[2])

(************************* constants of the crate **************************)
\* ascii_mandelbrot::{WIDTH, HEIGHT, ITERATIONS, ESCAPE_RADIUS}
WIDTH == 80
HEIGHT == 40
ITERATIONS == 100
ESCAPE_RADIUS == FromU32(2)
\* the driver's cap (bin/mandelbrot.rs) and the cap of compose's documented example
DRIVER_ITERATIONS == 255
DOC_ITERATIONS == 1000

\* the f64 literals 3.5, 2.5, 2.0, 1.0, 4.0 and 0.0
F3p5 == FScale(FromU32(7), -1)
F2p5 == FScale(FromU32(5), -1)
F2p0 == FromU32(2)
F1p0 == FromU32(1)
F4p0 == FromU32(4)
F0p0 == FZero(0)

\* the grid of tests::test_mandelbrot_0 and the pixel it maps
TEST_WIDTH == 800
TEST_HEIGHT == 800
TEST_PIXEL == 1

(******************************* bounds ************************************)
\* largest width and height of the grids the evaluators and compose are run on
MaxDim == 3
\* the small caps tried besides ITERATIONS, DRIVER_ITERATIONS and DOC_ITERATIONS
MaxCap == 3
\* largest width and height of the round-trip and index tests
MaxTestDim == 12
\* largest iteration count handed to to_ascii_char
MaxValue == 130

(**************************** pure functions *******************************)
\* to_complex_num: (x as f64 / width as f64 * 3.5 - 2.5, y as f64 / height as f64 * 2.0 - 1.0)
ToComplexNum(x, y, w, h) ==
  << FSub(FMul(FDiv(FromU32(x), FromU32(w)), F3p5), F2p5),
     FSub(FMul(FDiv(FromU32(y), FromU32(h)), F2p0), F1p0) >>

\* one orbit update: x*x - y*y + cx and 2.0*x*y + cy, both from the old (x, y)
OrbitX(x, y, cx) == FAdd(FSub(FMul(x, x), FMul(y, y)), cx)
OrbitY(x, y, cy) == FAdd(FMul(FMul(F2p0, x), y), cy)

\* x*x + y*y
NormSq(x, y) == FAdd(FMul(x, x), FMul(y, y))

\* variants of the loop guard: one iteration too many, one too few
ImgCondInclusive(n, cap) == n <= cap
ImgCondShort(n, cap) == n + 1 < cap

\* image evaluator: `while i < iterations` and `if x*x + y*y > 4.0 { break }`
ImgCond(n, cap) == n < cap
ImgEscaped(x, y) == FGt(NormSq(x, y), F4p0)

\* ESCAPE_RADIUS * ESCAPE_RADIUS
EscapeRadiusSq == FMul(ESCAPE_RADIUS, ESCAPE_RADIUS)

\* a variant of the guard without the cap
AsciiCondNoCap(x, y, n) == FLe(NormSq(x, y), EscapeRadiusSq)

\* ASCII evaluator: `while x*x + y*y <= ESCAPE_RADIUS*ESCAPE_RADIUS && iterations < ITERATIONS`
AsciiCond(x, y, n) == FLe(NormSq(x, y), EscapeRadiusSq) /\ n < ITERATIONS

\* one pass of the ASCII evaluator's `while` over <<x, y, iterations, running>>:
\* the guard, then the body; a loop that has ended stays as it is
AsciiPass(s, cc) ==
  IF ~s[4] THEN s
  ELSE IF AsciiCond(s[1], s[2], s[3])
       THEN << OrbitX(s[1], s[2], cc[1]), OrbitY(s[1], s[2], cc[2]), s[3] + 1, TRUE >>
       ELSE << s[1], s[2], s[3], FALSE >>

\* 2, 4, ... 128 passes in sequence
AsciiPass2(s, cc) == CHOOSE r \in {AsciiPass(t, cc) : t \in {AsciiPass(s, cc)}} : TRUE
AsciiPass4(s, cc) == CHOOSE r \in {AsciiPass2(t, cc) : t \in {AsciiPass2(s, cc)}} : TRUE
AsciiPass8(s, cc) == CHOOSE r \in {AsciiPass4(t, cc) : t \in {AsciiPass4(s, cc)}} : TRUE
AsciiPass16(s, cc) == CHOOSE r \in {AsciiPass8(t, cc) : t \in {AsciiPass8(s, cc)}} : TRUE
AsciiPass32(s, cc) == CHOOSE r \in {AsciiPass16(t, cc) : t \in {AsciiPass16(s, cc)}} : TRUE
AsciiPass64(s, cc) == CHOOSE r \in {AsciiPass32(t, cc) : t \in {AsciiPass32(s, cc)}} : TRUE
AsciiPass128(s, cc) == CHOOSE r \in {AsciiPass64(t, cc) : t \in {AsciiPass64(s, cc)}} : TRUE

\* `iterations` once the loop has ended (a loop still running has no result)
AsciiResult(s) == CASE ~s[4] -> s[3]

\* the ASCII evaluator mandelbrot(c) as a function: x = y = 0.0, iterations = 0, the
\* loop, the count
AsciiMandelbrot(cc) ==
  CHOOSE r \in {AsciiResult(AsciiPass128(<< F0p0, F0p0, 0, TRUE >>, v)) : v \in {cc}} : TRUE

\* a variant of the table whose first range ends one count late
ToAsciiCharLate(value) ==
  IF value >= 0 /\ value <= 6 THEN "."
  ELSE IF value >= 7 /\ value <= 10 THEN "*"
  ELSE IF value >= 11 /\ value <= 20 THEN ":"
  ELSE IF value >= 21 /\ value <= 30 THEN "o"
  ELSE IF value >= 31 /\ value <= 40 THEN "&"
  ELSE IF value >= 41 /\ value <= 50 THEN "8"
  ELSE IF value >= 51 /\ value <= 60 THEN "#"
  ELSE "@"

\* to_ascii_char: the match arms in order
ToAsciiChar(value) ==
  IF value >= 0 /\ value <= 5 THEN "."
  ELSE IF value >= 6 /\ value <= 10 THEN "*"
  ELSE IF value >= 11 /\ value <= 20 THEN ":"
  ELSE IF value >= 21 /\ value <= 30 THEN "o"
  ELSE IF value >= 31 /\ value <= 40 THEN "&"
  ELSE IF value >= 41 /\ value <= 50 THEN "8"
  ELSE IF value >= 51 /\ value <= 60 THEN "#"
  ELSE "@"

\* a variant of the index that drops the column
CalculatePixelIndexRow(x, y, w) == y * w

\* calculate_pixel_index: y * width + x (u32; the model's operands stay far below 2^32)
CalculatePixelIndex(x, y, w) == y * w + x

\* `i as u8`: the cast keeps the low eight bits
AsU8(n) == n % 256

\* Rgb([i as u8, i as u8, i as u8])
Rgb(n) == <<AsU8(n), AsU8(n), AsU8(n)>>

\* a variant of the test's index with the roles of x and y swapped
TestPixelIndexSwapped(x, y, w) == x * w + y

\* tests::calculate_pixel_index: y * width + x
TestPixelIndex(x, y, w) == y * w + x

\* `as u32` without the rounding: the integer part
TruncMag(h, l, sh) ==
  CASE sh >= 53 -> 0
    [] sh >= 28 /\ sh <= 52 -> h \div Pow2(sh - 28)
    [] sh >= 24 /\ sh <= 27 -> h * Pow2(28 - sh) + (l \div Pow2(sh))
TruncToU32(p) == IF IsZero(p) \/ p[1] = 1 THEN 0 ELSE TruncMag(p[3], p[4], -p[2])

\* a variant of the inverse that casts without rounding first
FromComplexNumTrunc(cc, w, h) ==
  << TruncToU32(FMul(FDiv(FAdd(cc[1], F2p5), F3p5), FMul(FromU32(w), F1p0))),
     TruncToU32(FMul(FDiv(FAdd(cc[2], F1p0), F2p0), FMul(FromU32(h), F1p0))) >>

\* tests::from_complex_num
FromComplexNum(cc, w, h) ==
  << RoundToU32(FMul(FDiv(FAdd(cc[1], F2p5), F3p5), FMul(FromU32(w), F1p0))),
     RoundToU32(FMul(FDiv(FAdd(cc[2], F1p0), F2p0), FMul(FromU32(h), F1p0))) >>

(******************************** state ************************************)
VARIABLES
  task,        \* the entry point being run
  pc,          \* control position
  width, height, iterations,   \* arguments of compose / to_complex_num / mandelbrot
  lx, ly,      \* the pixel loop's x and y
  c,           \* the coordinate handed to the evaluator
  zx, zy, i,   \* the evaluator's x, y and counter
  nupd,        \* history: orbit updates made by the running evaluator call
  asc, img,    \* results of the ASCII and the image evaluator (-1: none yet)
  image,       \* compose's pixel buffer by (x, y) / collect_ascii's HashMap by index
  writes,      \* history: the <<x, y, count>> of every pixel store, in program order
  out,         \* characters written to stdout
  back,        \* from_complex_num's result
  hash_enum, hash_loops,   \* the two maps of tests::test_complex_num
  value, ch, prev,         \* to_ascii_char's argument, result, and previous result
  args,        \* the options get_matches found on the command line
  failed,      \* history: the step of try_main that failed, and how ("" if none)
  result,      \* what try_main returned to main ("none" while it runs)
  err,         \* what was written to stderr
  status       \* the exit status of the process (-1 while it runs)

vars == << task, pc, width, height, iterations, lx, ly, c, zx, zy, i, nupd, asc, img,
           image, writes, out, back, hash_enum, hash_loops, value, ch, prev,
           args, failed, result, err, status >>

evalVars == << c, zx, zy, i, nupd >>
testVars == << back, hash_enum, hash_loops, value, ch, prev >>
driverVars == << args, failed, result, err, status >>

Caps == (0 .. MaxCap) \cup {ITERATIONS}
Origin == << F0p0, F0p0 >>

(************************** the two evaluators *****************************)
\* `let (cx, cy) = c; let mut x = 0.0; let mut y = 0.0; let mut i = 0;`
EnterEvaluator(cc) ==
  /\ c' = cc
  /\ zx' = F0p0
  /\ zy' = F0p0
  /\ i' = 0
  /\ nupd' = 0

\* a variant of the loop body that counts the pass before it tests for the escape
ImgUpdateCountFirst(nx, ny) ==
  /\ zx' = nx
  /\ zy' = ny
  /\ i' = i + 1
  /\ pc' = IF ImgEscaped(nx, ny) THEN "img_ret" ELSE pc

\* image_mandelbrot::mandelbrot, one pass through the loop body: the orbit moves
\* to (nx, ny); an escape breaks out of the loop before `i += 1`
ImgUpdate(nx, ny) ==
  /\ zx' = nx
  /\ zy' = ny
  /\ IF ImgEscaped(nx, ny)
     THEN i' = i /\ pc' = "img_ret"
     ELSE i' = i + 1 /\ pc' = pc

ImgIter ==
  /\ pc = "img_eval"
  /\ ImgCond(i, iterations)
  /\ ImgUpdate(OrbitX(zx, zy, c[1]), OrbitY(zx, zy, c[2]))
  /\ nupd' = nupd + 1
  /\ UNCHANGED << task, width, height, iterations, lx, ly, c, asc, img, image, writes, out >>
  /\ UNCHANGED testVars
  /\ UNCHANGED driverVars

\* image_mandelbrot::mandelbrot, the loop condition fails: return i
ImgReturn ==
  /\ pc = "img_eval"
  /\ ~ImgCond(i, iterations)
  /\ pc' = "img_ret"
  /\ UNCHANGED << task, width, height, iterations, lx, ly, asc, img, image, writes, out >>
  /\ UNCHANGED evalVars
  /\ UNCHANGED testVars
  /\ UNCHANGED driverVars

\* ascii_mandelbrot::mandelbrot, one pass through the loop body
AsciiIter ==
  /\ pc = "ascii_eval"
  /\ AsciiCond(zx, zy, i)
  /\ zx' = OrbitX(zx, zy, c[1])
  /\ zy' = OrbitY(zx, zy, c[2])
  /\ i' = i + 1
  /\ nupd' = nupd + 1
  /\ UNCHANGED << task, pc, width, height, iterations, lx, ly, c, asc, img, image, writes, out >>
  /\ UNCHANGED testVars
  /\ UNCHANGED driverVars

\* ascii_mandelbrot::mandelbrot, the loop condition fails: return iterations
AsciiReturn ==
  /\ pc = "ascii_eval"
  /\ ~AsciiCond(zx, zy, i)
  /\ pc' = "ascii_ret"
  /\ UNCHANGED << task, width, height, iterations, lx, ly, asc, img, image, writes, out >>
  /\ UNCHANGED evalVars
  /\ UNCHANGED testVars
  /\ UNCHANGED driverVars

(*************** both evaluators on one coordinate *************************)
\* The coordinates tried: every pixel of every grid up to MaxDim x MaxDim, mapped
\* as tests::test_mandelbrot maps them, and the literal (0.0, 0.0) of mandelbrot's
\* documented example (width = 0 marks that no pixel stands behind it).
NoDriver ==
  /\ args = {}
  /\ failed = ""
  /\ result = "none"
  /\ err = << >>
  /\ status = -1

NoTests ==
  /\ NoDriver
  /\ back = << >>
  /\ hash_enum = << >>
  /\ hash_loops = << >>
  /\ value = 0
  /\ ch = ""
  /\ prev = ""

InitEval ==
  /\ task = "eval"
  /\ pc = "start"
  /\ \/ /\ width \in 1 .. MaxDim
        /\ height \in 1 .. MaxDim
        /\ lx \in 0 .. (width - 1)
        /\ ly \in 0 .. (height - 1)
        /\ c = ToComplexNum(lx, ly, width, height)
     \/ /\ width = TEST_WIDTH
        /\ height = TEST_HEIGHT
        /\ lx = TEST_PIXEL
        /\ ly = TEST_PIXEL
        /\ c = ToComplexNum(lx, ly, width, height)
     \/ /\ width = 0
        /\ height = 0
        /\ lx = 0
        /\ ly = 0
        /\ c = Origin
  /\ iterations = 0
  /\ zx = F0p0
  /\ zy = F0p0
  /\ i = 0
  /\ nupd = 0
  /\ asc = -1
  /\ img = -1
  /\ image = << >>
  /\ writes = << >>
  /\ out = << >>
  /\ NoTests

\* ascii_mandelbrot::mandelbrot(c)
EvalCallAscii ==
  /\ task = "eval"
  /\ pc = "start"
  /\ EnterEvaluator(c)
  /\ pc' = "ascii_eval"
  /\ UNCHANGED << task, width, height, iterations, lx, ly, asc, img, image, writes, out >>
  /\ UNCHANGED testVars
  /\ UNCHANGED driverVars

\* image_mandelbrot::mandelbrot(c, cap)
EvalCallImg ==
  /\ task = "eval"
  /\ pc = "ascii_ret"
  /\ asc' = i
  /\ \E cap \in Caps \cup {DRIVER_ITERATIONS} : iterations' = cap
  /\ EnterEvaluator(c)
  /\ pc' = "img_eval"
  /\ UNCHANGED << task, width, height, lx, ly, img, image, writes, out >>
  /\ UNCHANGED testVars
  /\ UNCHANGED driverVars

EvalDone ==
  /\ task = "eval"
  /\ pc = "img_ret"
  /\ img' = i
  /\ pc' = "done"
  /\ UNCHANGED << task, width, height, iterations, lx, ly, asc, image, writes, out >>
  /\ UNCHANGED evalVars
  /\ UNCHANGED testVars
  /\ UNCHANGED driverVars

NextEval ==
  \/ EvalCallAscii
  \/ AsciiIter
  \/ AsciiReturn
  \/ EvalCallImg
  \/ ImgIter
  \/ ImgReturn
  \/ EvalDone

SpecEval == InitEval /\ [][NextEval]_vars

(********************* properties of the evaluators ************************)
\* C1 (boundedness): for every coordinate and every cap >= 0 the counter of each
\* evaluator, and the count it returns, lies in 0 .. cap; the ASCII evaluator's
\* cap is the constant 100.
C1_Bounded ==
  /\ pc \in {"ascii_eval", "ascii_ret"} => (0 <= i /\ i <= ITERATIONS)
  /\ pc \in {"img_eval", "img_ret"} => (0 <= i /\ i <= iterations)
  /\ pc \in {"img_eval", "img_ret", "done"} => (0 <= asc /\ asc <= ITERATIONS)
  /\ pc = "done" => (0 <= img /\ img <= iterations)

\* both evaluators have returned their cap for a pixel of a grid
C1_Witness ==
  /\ pc = "done"
  /\ width > 0
  /\ iterations = DRIVER_ITERATIONS
  /\ img = DRIVER_ITERATIONS
  /\ asc = ITERATIONS

\* C2 (origin): mandelbrot((0.0, 0.0), cap) keeps the orbit at (0, 0) in every
\* iteration and returns cap, for every cap > 0.
C2_Origin ==
  (task = "eval" /\ c = Origin) =>
    /\ pc \in {"img_eval", "img_ret"} => (zx = F0p0 /\ zy = F0p0)
    /\ (pc = "done" /\ iterations > 0) => img = iterations

\* the documented example mandelbrot((0.0, 0.0), 100) == 100
C2_Witness ==
  /\ task = "eval"
  /\ c = Origin
  /\ pc = "done"
  /\ iterations = ITERATIONS
  /\ img = ITERATIONS

\* C4 (one kernel): at cap 100 the image evaluator and the ASCII evaluator return
\* the same count for the same coordinate.
C4_SameCount == (pc = "done" /\ iterations = ITERATIONS) => img = asc

\* C12 (escape count of the image evaluator): with z_0 = (0, 0) and
\* z_{k+1} = z_k^2 + c, every pass moves the orbit by one step of the recurrence;
\* while the loop runs with counter k none of z_1 .. z_k has a squared magnitude
\* above 4; the loop is left either at counter k < cap with the squared magnitude
\* of z_{k+1} above 4, or at counter cap; the counter it is left with is the count
\* returned; and a c whose own squared magnitude exceeds 4 gets 0 for every cap.
C12_EscapeCount ==
  /\ [][(pc = "img_eval" /\ nupd' = nupd + 1) =>
         /\ zx' = FAdd(FSub(FMul(zx, zx), FMul(zy, zy)), c[1])
         /\ zy' = FAdd(FMul(FMul(F2p0, zx), zy), c[2])]_vars
  /\ [](pc = "img_eval" =>
         /\ i = nupd
         /\ i <= iterations
         /\ (i = 0 => (zx = F0p0 /\ zy = F0p0))
         /\ (i > 0 => ~FGt(FAdd(FMul(zx, zx), FMul(zy, zy)), F4p0)))
  /\ [](pc = "img_ret" =>
         \/ /\ i < iterations
            /\ nupd = i + 1
            /\ FGt(FAdd(FMul(zx, zx), FMul(zy, zy)), F4p0)
         \/ /\ i = iterations
            /\ nupd = i)
  /\ []((task = "eval" /\ pc = "done") =>
         /\ img = i
         /\ (FGt(FAdd(FMul(c[1], c[1]), FMul(c[2], c[2])), F4p0) => img = 0))

\* tests::test_mandelbrot_0: the coordinate of pixel (1, 1) of the 800x800 image
\* lies outside the circle of radius 2 and came back with count 0 at cap 255
C12_Witness ==
  /\ task = "eval"
  /\ pc = "done"
  /\ width = TEST_WIDTH
  /\ lx = TEST_PIXEL
  /\ ly = TEST_PIXEL
  /\ iterations = DRIVER_ITERATIONS
  /\ FGt(FAdd(FMul(c[1], c[1]), FMul(c[2], c[2])), F4p0)
  /\ img = 0

(************************** the raster composer ****************************)
\* ImageBuffer::new(width, height): one zeroed pixel per (x, y)
Pixels(w, h) == (0 .. (w - 1)) \X (0 .. (h - 1))

ComposeCaps == Caps \cup {DRIVER_ITERATIONS, DOC_ITERATIONS}

\* compose(width, height, iterations) is entered
InitCompose ==
  /\ task = "compose"
  /\ pc = "compose_loop"
  /\ width \in 0 .. MaxDim
  /\ height \in 0 .. MaxDim
  /\ iterations \in ComposeCaps
  /\ lx = 0
  /\ ly = 0
  /\ c = Origin
  /\ zx = F0p0
  /\ zy = F0p0
  /\ i = 0
  /\ nupd = 0
  /\ asc = -1
  /\ img = -1
  /\ image = [p \in Pixels(width, height) |-> <<0, 0, 0>>]
  /\ writes = << >>
  /\ out = << >>
  /\ NoTests

\* a variant of the iterator that stops before the last row
HasPixelShort == width > 0 /\ ly + 1 < height

\* enumerate_pixels_mut yields the pixels row by row; (lx, ly) is the next one
HasPixel == width > 0 /\ ly < height

\* `let c = to_complex_num(x, y, width, height); let i = mandelbrot(c, iterations);`
ComposeNext ==
  /\ task = "compose"
  /\ pc = "compose_loop"
  /\ HasPixel
  /\ EnterEvaluator(ToComplexNum(lx, ly, width, height))
  /\ pc' = "img_eval"
  /\ UNCHANGED << task, width, height, iterations, lx, ly, asc, img, image, writes, out >>
  /\ UNCHANGED testVars
  /\ UNCHANGED driverVars

\* `*pixel = Rgb([i as u8, i as u8, i as u8]);` and the iterator's step
ComposeStore ==
  /\ task = "compose"
  /\ pc = "img_ret"
  /\ image' = [image EXCEPT ![<<lx, ly>>] = Rgb(i)]
  /\ writes' = Append(writes, <<lx, ly, i>>)
  /\ IF lx + 1 < width
     THEN lx' = lx + 1 /\ ly' = ly
     ELSE lx' = 0 /\ ly' = ly + 1
  /\ pc' = "compose_loop"
  /\ UNCHANGED << task, width, height, iterations, asc, img, out >>
  /\ UNCHANGED evalVars
  /\ UNCHANGED testVars
  /\ UNCHANGED driverVars

\* the iterator is exhausted: compose returns the image
ComposeDone ==
  /\ task = "compose"
  /\ pc = "compose_loop"
  /\ ~HasPixel
  /\ pc' = "done"
  /\ UNCHANGED << task, width, height, iterations, lx, ly, asc, img, image, writes, out >>
  /\ UNCHANGED evalVars
  /\ UNCHANGED testVars
  /\ UNCHANGED driverVars

(******************* the ASCII composer and printer ************************)
\* HashMap::insert
Insert(m, key, v) == (key :> v) @@ m

\* collect_ascii() is entered
InitAscii ==
  /\ task = "ascii"
  /\ pc = "collect_loop"
  /\ width = WIDTH
  /\ height = HEIGHT
  /\ iterations = ITERATIONS
  /\ lx = 0
  /\ ly = 0
  /\ c = Origin
  /\ zx = F0p0
  /\ zy = F0p0
  /\ i = 0
  /\ nupd = 0
  /\ asc = -1
  /\ img = -1
  /\ image = << >>
  /\ writes = << >>
  /\ out = << >>
  /\ NoTests

\* one pass of `for x in 0..WIDTH { for y in 0..HEIGHT {`:
\* `let complex_num = to_complex_num(x, y, WIDTH, HEIGHT); let value = mandelbrot(complex_num);`
\* `image.insert(calculate_pixel_index(x, y, WIDTH), to_ascii_char(value));`, then
\* the inner loop's y advances, and the outer loop's x after the last y
CollectInsert ==
  /\ task = "ascii"
  /\ pc = "collect_loop"
  /\ lx < WIDTH
  /\ ly < HEIGHT
  /\ c' = ToComplexNum(lx, ly, WIDTH, HEIGHT)
  /\ asc' = AsciiMandelbrot(c')
  /\ image' = Insert(image, CalculatePixelIndex(lx, ly, WIDTH), ToAsciiChar(asc'))
  /\ IF ly + 1 < HEIGHT
     THEN lx' = lx /\ ly' = ly + 1
     ELSE lx' = lx + 1 /\ ly' = 0
  /\ UNCHANGED << task, pc, width, height, iterations, zx, zy, i, nupd, img, writes, out >>
  /\ UNCHANGED testVars
  /\ UNCHANGED driverVars

\* collect_ascii returns and the driver hands the map to print_ascii
CollectDone ==
  /\ task = "ascii"
  /\ pc = "collect_loop"
  /\ ~(lx < WIDTH /\ ly < HEIGHT)
  /\ lx' = 0
  /\ ly' = 0
  /\ pc' = "print_loop"
  /\ UNCHANGED << task, width, height, iterations, asc, img, image, writes, out >>
  /\ UNCHANGED evalVars
  /\ UNCHANGED testVars
  /\ UNCHANGED driverVars

\* print_ascii: `print!("{}", image[&pixel_index])`; indexing a missing key panics
PrintChar ==
  /\ task = "ascii"
  /\ pc = "print_loop"
  /\ ly < HEIGHT
  /\ lx < WIDTH
  /\ IF CalculatePixelIndex(lx, ly, WIDTH) \in DOMAIN image
     THEN /\ out' = Append(out, image[CalculatePixelIndex(lx, ly, WIDTH)])
          /\ lx' = lx + 1
          /\ pc' = pc
     ELSE /\ out' = out
          /\ lx' = lx
          /\ pc' = "panic"
  /\ UNCHANGED << task, width, height, iterations, ly, asc, img, image, writes >>
  /\ UNCHANGED evalVars
  /\ UNCHANGED testVars
  /\ UNCHANGED driverVars

\* print_ascii: `println!()` after the last x of a row
PrintLine ==
  /\ task = "ascii"
  /\ pc = "print_loop"
  /\ ly < HEIGHT
  /\ ~(lx < WIDTH)
  /\ out' = Append(out, "\n")
  /\ lx' = 0
  /\ ly' = ly + 1
  /\ UNCHANGED << task, pc, width, height, iterations, asc, img, image, writes >>
  /\ UNCHANGED evalVars
  /\ UNCHANGED testVars
  /\ UNCHANGED driverVars

\* print_ascii returns
PrintDone ==
  /\ task = "ascii"
  /\ pc = "print_loop"
  /\ ~(ly < HEIGHT)
  /\ pc' = "done"
  /\ UNCHANGED << task, width, height, iterations, lx, ly, asc, img, image, writes, out >>
  /\ UNCHANGED evalVars
  /\ UNCHANGED testVars
  /\ UNCHANGED driverVars

InitRender == InitCompose \/ InitAscii

NextRender ==
  \/ ComposeNext
  \/ ImgIter
  \/ ImgReturn
  \/ ComposeStore
  \/ ComposeDone
  \/ CollectInsert
  \/ CollectDone
  \/ PrintChar
  \/ PrintLine
  \/ PrintDone

SpecRender == InitRender /\ [][NextRender]_vars

(********************* properties of the two composers *********************)
\* the pixels compose has stored so far
StoredPixels == {<<writes[k][1], writes[k][2]>> : k \in 1 .. Len(writes)}

\* C3 (full coverage, exactly once): when compose(w, h, cap) finishes every pixel
\* (x, y) with x < w and y < h has been assigned exactly once and the buffer holds
\* w*h entries; collect_ascii never inserts an index twice (after n inserts the
\* map has n keys) and finishes with 3200 entries whose keys are exactly 0 .. 3199.
C3_Coverage ==
  /\ (task = "compose" /\ pc \in {"compose_loop", "done"}) =>
       /\ Cardinality(StoredPixels) = Len(writes)
       /\ Cardinality(DOMAIN image) = width * height
  /\ (task = "compose" /\ pc = "done") =>
       /\ Len(writes) = width * height
       /\ StoredPixels = Pixels(width, height)
       /\ DOMAIN image = Pixels(width, height)
  /\ (task = "ascii" /\ pc = "collect_loop") =>
       Cardinality(DOMAIN image) = lx * 40 + ly
  /\ (task = "ascii" /\ pc \in {"print_loop", "done"} /\ lx = 0) =>
       /\ Cardinality(DOMAIN image) = 3200
       /\ DOMAIN image = 0 .. 3199

\* compose(3, 2, 1000) has returned its six pixels
C3_Witness ==
  /\ task = "compose"
  /\ pc = "done"
  /\ width = 3
  /\ height = 2
  /\ iterations = DOC_ITERATIONS
  /\ Len(writes) = 6

\* the 8-bit clamp of a count
Clamp255(n) == IF n > 255 THEN 255 ELSE n

\* C5 (raster pixel value): for every width, height and cap, caps above 255
\* included, every stored pixel has R = G = B = min(count, 255); a count above
\* 255 is never stored wrapped modulo 256.
C5_Clamped ==
  (task = "compose" /\ pc \in {"compose_loop", "done"}) =>
    \A k \in 1 .. Len(writes) :
      image[<<writes[k][1], writes[k][2]>>] =
        <<Clamp255(writes[k][3]), Clamp255(writes[k][3]), Clamp255(writes[k][3])>>

\* the pixel collect_ascii has just inserted: it walks column by column
LastX == IF ly = 0 THEN lx - 1 ELSE lx
LastY == IF ly = 0 THEN 39 ELSE ly - 1

\* the grid position of the k-th character of the output: rows of 80 characters
\* and a newline
RowOf(k) == (k - 1) \div 81
ColOf(k) == (k - 1) % 81

\* the k-th character of the output is the newline of its row or the entry the
\* map holds for its pixel under the row-major index
RowMajor(k) ==
  IF ColOf(k) = 80
  THEN out[k] = "\n"
  ELSE /\ (RowOf(k) * 80 + ColOf(k)) \in DOMAIN image
       /\ out[k] = image[RowOf(k) * 80 + ColOf(k)]

\* C10 (printing order): the entry collect_ascii inserts for (x, y) is
\* to_ascii_char of the count of to_complex_num(x, y, 80, 40) and sits at the
\* row-major index y*80 + x although the grid is filled column by column;
\* print_ascii never looks up a missing key and writes row 0, row 1, ... row 39,
\* each as its 80 characters for x = 0 .. 79 in increasing order followed by one
\* newline, the character of (x, y) being the entry of (x, y).
C10_PrintOrder ==
  task = "ascii" =>
    /\ pc # "panic"
    /\ (pc = "collect_loop" /\ (lx > 0 \/ ly > 0)) =>
         /\ c = ToComplexNum(LastX, LastY, 80, 40)
         /\ (LastY * 80 + LastX) \in DOMAIN image
         /\ image[LastY * 80 + LastX] = ToAsciiChar(asc)
    /\ pc = "print_loop" =>
         /\ Len(out) = ly * 81 + lx
         /\ Len(out) > 0 => RowMajor(Len(out))
    /\ pc = "done" =>
         /\ Len(out) = 3240
         /\ \A k \in 1 .. 3240 : RowMajor(k)

\* row 0 is on stdout, a corner pixel outside the set first, its newline last,
\* and row 1 is about to start
C10_Witness ==
  /\ task = "ascii"
  /\ pc = "print_loop"
  /\ ly = 1
  /\ lx = 0
  /\ Len(out) = 81
  /\ out[1] = "."
  /\ out[81] = "\n"
(****************************** termination *********************************)
\* every run of the crate: one evaluator call pair, one compose, or the ASCII
\* collect-and-print
InitRun == InitEval \/ InitRender

NextRun == NextEval \/ NextRender

SpecRun == InitRun /\ [][NextRun]_vars

\* the control part of the state: position, loop indices, update count
ctl == << pc, lx, ly, nupd >>

PcValues ==
  {"start", "ascii_eval", "ascii_ret", "img_eval", "img_ret", "compose_loop",
   "collect_loop", "print_loop", "done", "panic"}

\* the thread is scheduled: a run that has neither returned nor panicked takes
\* its next step, which moves the control position, a loop index or the update
\* count
Scheduled ==
  /\ pc \notin {"done", "panic"}
  /\ pc' \in PcValues
  /\ lx' \in {0, lx, lx + 1}
  /\ ly' \in {0, ly, ly + 1}
  /\ nupd' \in {0, nupd, nupd + 1}

\* a single thread that is never suspended forever
FairRun == SpecRun /\ WF_ctl(Scheduled)

\* C6 (termination): each evaluator makes at most cap orbit updates, its counter
\* going up by one on every pass that stays in the loop, so its loop halts; and
\* every evaluator call, compose run and collect_ascii / print_ascii run finishes.
C6_Terminates ==
  /\ [](pc \in {"img_eval", "img_ret"} => (nupd <= iterations /\ i <= nupd))
  /\ [](pc \in {"ascii_eval", "ascii_ret"} => (nupd <= ITERATIONS /\ i = nupd))
  /\ [][(pc = "img_eval" /\ pc' = "img_eval") => (i' = i + 1 /\ nupd' = nupd + 1)]_vars
  /\ [][(pc = "ascii_eval" /\ pc' = "ascii_eval") => (i' = i + 1 /\ nupd' = nupd + 1)]_vars
  /\ <>(pc = "done")

\* compose has finished a grid holding a pixel whose evaluation used the whole cap
C6_Witness ==
  /\ task = "compose"
  /\ pc = "done"
  /\ iterations = DOC_ITERATIONS
  /\ \E k \in 1 .. Len(writes) : writes[k][3] = DOC_ITERATIONS
(************************* tests::test_from_complex_num *********************)
InitMap ==
  /\ task = "map"
  /\ pc = "map_loop"
  /\ width \in 1 .. MaxTestDim
  /\ height \in 1 .. MaxTestDim
  /\ iterations = 0
  /\ lx = 0
  /\ ly = 0
  /\ c = Origin
  /\ zx = F0p0
  /\ zy = F0p0
  /\ i = 0
  /\ nupd = 0
  /\ asc = -1
  /\ img = -1
  /\ image = << >>
  /\ writes = << >>
  /\ out = << >>
  /\ NoTests

\* one pass of `for x in 0..WIDTH { for y in 0..HEIGHT {`: map the pixel, map it
\* back, `assert_eq!((cx1, cy1), (cx2, cy2))`
MapCheck ==
  /\ task = "map"
  /\ pc = "map_loop"
  /\ lx < width
  /\ ly < height
  /\ c' = ToComplexNum(lx, ly, width, height)
  /\ back' = FromComplexNum(c', width, height)
  /\ IF back' = << lx, ly >>
     THEN /\ pc' = pc
          /\ IF ly + 1 < height
             THEN lx' = lx /\ ly' = ly + 1
             ELSE lx' = lx + 1 /\ ly' = 0
     ELSE /\ pc' = "panic"
          /\ lx' = lx
          /\ ly' = ly
  /\ UNCHANGED << task, width, height, iterations, zx, zy, i, nupd, asc, img, image, writes, out >>
  /\ UNCHANGED << hash_enum, hash_loops, value, ch, prev >>
  /\ UNCHANGED driverVars

\* the loops are exhausted: the test passes
MapDone ==
  /\ task = "map"
  /\ pc = "map_loop"
  /\ ~(lx < width /\ ly < height)
  /\ pc' = "done"
  /\ UNCHANGED << task, width, height, iterations, lx, ly, asc, img, image, writes, out >>
  /\ UNCHANGED evalVars
  /\ UNCHANGED testVars
  /\ UNCHANGED driverVars

NextMap == MapCheck \/ MapDone

SpecMap == InitMap /\ [][NextMap]_vars

\* the pixel the round-trip loop has just mapped: it walks column by column
MapLastX == IF ly = 0 THEN lx - 1 ELSE lx
MapLastY == IF ly = 0 THEN height - 1 ELSE ly - 1

\* C7 (mapping round trip): for every width and height in 1 .. MaxTestDim and
\* every pixel (x, y) of the grid, from_complex_num(to_complex_num(x, y, w, h), w, h)
\* is exactly (x, y): the assertion never fails and the value mapped back is the
\* pixel just visited.
C7_RoundTrip ==
  task = "map" =>
    /\ pc # "panic"
    /\ (pc = "map_loop" /\ (lx > 0 \/ ly > 0)) =>
         /\ c = ToComplexNum(MapLastX, MapLastY, width, height)
         /\ back = << MapLastX, MapLastY >>

\* the last pixel of a 5x3 grid has made the round trip
C7_Witness ==
  /\ task = "map"
  /\ pc = "done"
  /\ width = 5
  /\ height = 3
  /\ back = << 4, 2 >>

(*************************** tests::test_complex_num ************************)
InitIndex ==
  /\ task = "index"
  /\ pc = "enum_loop"
  /\ width \in 1 .. MaxTestDim
  /\ height \in 1 .. MaxTestDim
  /\ iterations = 0
  /\ lx = 0
  /\ ly = 0
  /\ c = Origin
  /\ zx = F0p0
  /\ zy = F0p0
  /\ i = 0
  /\ nupd = 0
  /\ asc = -1
  /\ img = -1
  /\ image = << >>
  /\ writes = << >>
  /\ out = << >>
  /\ NoTests

\* one item of `(0..image_area).enumerate().for_each(...)`: decode the index i,
\* insert it into hash_enum, and the closure's three assertions
EnumStep ==
  /\ task = "index"
  /\ pc = "enum_loop"
  /\ i < width * height
  /\ hash_enum' = Insert(hash_enum, i, << i % width, i \div width >>)
  /\ c' = ToComplexNum(i % width, i \div width, width, height)
  /\ back' = FromComplexNum(c', width, height)
  /\ IF /\ back' = << i % width, i \div width >>
        /\ i < width * height
        /\ i = TestPixelIndex(i % width, i \div width, width)
     THEN i' = i + 1 /\ pc' = pc
     ELSE i' = i /\ pc' = "panic"
  /\ UNCHANGED << task, width, height, iterations, lx, ly, zx, zy, nupd, asc, img, image, writes, out >>
  /\ UNCHANGED << hash_loops, value, ch, prev >>
  /\ UNCHANGED driverVars

\* the enumeration is exhausted: on to the nested loops
EnumDone ==
  /\ task = "index"
  /\ pc = "enum_loop"
  /\ ~(i < width * height)
  /\ pc' = "nested_loop"
  /\ UNCHANGED << task, width, height, iterations, lx, ly, asc, img, image, writes, out >>
  /\ UNCHANGED evalVars
  /\ UNCHANGED testVars
  /\ UNCHANGED driverVars

\* one pass of `for x in 0..WIDTH { for y in 0..HEIGHT {`: insert the pixel under
\* its index into hash_loops, and the round-trip assertion
LoopStep ==
  /\ task = "index"
  /\ pc = "nested_loop"
  /\ lx < width
  /\ ly < height
  /\ hash_loops' = Insert(hash_loops, TestPixelIndex(lx, ly, width), << lx, ly >>)
  /\ c' = ToComplexNum(lx, ly, width, height)
  /\ back' = FromComplexNum(c', width, height)
  /\ IF back' = << lx, ly >>
     THEN /\ pc' = pc
          /\ IF ly + 1 < height
             THEN lx' = lx /\ ly' = ly + 1
             ELSE lx' = lx + 1 /\ ly' = 0
     ELSE /\ pc' = "panic"
          /\ lx' = lx
          /\ ly' = ly
  /\ UNCHANGED << task, width, height, iterations, zx, zy, i, nupd, asc, img, image, writes, out >>
  /\ UNCHANGED << hash_enum, value, ch, prev >>
  /\ UNCHANGED driverVars

\* `assert_eq!(hash_enum, hash_loops)`
LoopDone ==
  /\ task = "index"
  /\ pc = "nested_loop"
  /\ ~(lx < width /\ ly < height)
  /\ pc' = IF hash_enum = hash_loops THEN "done" ELSE "panic"
  /\ UNCHANGED << task, width, height, iterations, lx, ly, asc, img, image, writes, out >>
  /\ UNCHANGED evalVars
  /\ UNCHANGED testVars
  /\ UNCHANGED driverVars

NextIndex == EnumStep \/ EnumDone \/ LoopStep \/ LoopDone

SpecIndex == InitIndex /\ [][NextIndex]_vars

\* C8 (linear index bijection): for every width and height in 1 .. MaxTestDim the
\* map built by the nested loops (x outer, y inner) keyed by y*w + x equals the
\* map built by decoding every index k of 0 .. w*h - 1 as (k mod w, k div w); its
\* keys are exactly 0 .. w*h - 1, its values exactly the pixels of the grid, and
\* the pixel (x, y) sits at key y*w + x.
C8_Bijection ==
  task = "index" =>
    /\ pc # "panic"
    /\ pc = "done" =>
         /\ hash_enum = hash_loops
         /\ DOMAIN hash_loops = 0 .. (width * height - 1)
         /\ {hash_loops[k] : k \in DOMAIN hash_loops} = Pixels(width, height)
         /\ \A p \in Pixels(width, height) : hash_loops[p[2] * width + p[1]] = p

\* the test has passed on a 3x5 grid
C8_Witness ==
  /\ task = "index"
  /\ pc = "done"
  /\ width = 3
  /\ height = 5
  /\ hash_loops[14] = << 2, 4 >>
  /\ hash_enum[7] = << 1, 2 >>

(****************************** to_ascii_char *******************************)
InitBucket ==
  /\ task = "bucket"
  /\ pc = "bucket_call"
  /\ width = 0
  /\ height = 0
  /\ iterations = 0
  /\ lx = 0
  /\ ly = 0
  /\ c = Origin
  /\ zx = F0p0
  /\ zy = F0p0
  /\ i = 0
  /\ nupd = 0
  /\ asc = -1
  /\ img = -1
  /\ image = << >>
  /\ writes = << >>
  /\ out = << >>
  /\ NoTests

\* to_ascii_char(value)
BucketCall ==
  /\ task = "bucket"
  /\ pc = "bucket_call"
  /\ prev' = ch
  /\ ch' = ToAsciiChar(value)
  /\ pc' = "bucket_ret"
  /\ UNCHANGED << task, width, height, iterations, lx, ly, asc, img, image, writes, out >>
  /\ UNCHANGED evalVars
  /\ UNCHANGED << back, hash_enum, hash_loops, value >>
  /\ UNCHANGED driverVars

\* the next count is tried
BucketNext ==
  /\ task = "bucket"
  /\ pc = "bucket_ret"
  /\ value < MaxValue
  /\ value' = value + 1
  /\ pc' = "bucket_call"
  /\ UNCHANGED << task, width, height, iterations, lx, ly, asc, img, image, writes, out >>
  /\ UNCHANGED evalVars
  /\ UNCHANGED << back, hash_enum, hash_loops, ch, prev >>
  /\ UNCHANGED driverVars

\* every count up to MaxValue has been tried
BucketDone ==
  /\ task = "bucket"
  /\ pc = "bucket_ret"
  /\ ~(value < MaxValue)
  /\ pc' = "done"
  /\ UNCHANGED << task, width, height, iterations, lx, ly, asc, img, image, writes, out >>
  /\ UNCHANGED evalVars
  /\ UNCHANGED testVars
  /\ UNCHANGED driverVars

NextBucket == BucketCall \/ BucketNext \/ BucketDone

SpecBucket == InitBucket /\ [][NextBucket]_vars

\* the characters of the table in order of ink density
Ink == << ".", "*", ":", "o", "&", "8", "#", "@" >>

\* the upper ends of the first seven ranges
RangeEnd == << 5, 10, 20, 30, 40, 50, 60 >>

\* the place of a count in the table
Bucket(v) == 1 + Cardinality({k \in 1 .. 7 : v > RangeEnd[k]})

\* the place of a character in the table (0 if it is not in it)
Rank(ch0) == IF \E k \in 1 .. 8 : Ink[k] = ch0 THEN CHOOSE k \in 1 .. 8 : Ink[k] = ch0 ELSE 0

\* C9 (bucket table): for every count v in 0 .. MaxValue, to_ascii_char(v) is '.'
\* for 0..5, '*' for 6..10, ':' for 11..20, 'o' for 21..30, '&' for 31..40, '8'
\* for 41..50, '#' for 51..60 and '@' from 61 on; it always returns a character of
\* the table, and the rank of the character never goes down as v goes up.
C9_Table ==
  (task = "bucket" /\ pc \in {"bucket_ret", "done"}) =>
    /\ ch = Ink[Bucket(value)]
    /\ Rank(ch) \in 1 .. 8
    /\ value > 0 => (Rank(prev) >= 1 /\ Rank(prev) <= Rank(ch))

\* count 61, the first of the open-ended last range, came back as '@' after '#'
C9_Witness ==
  /\ task = "bucket"
  /\ pc = "bucket_ret"
  /\ value = 61
  /\ prev = "#"
  /\ ch = "@"
(******************************* the driver *********************************)
\* what the driver leaves alone: the state of the library calls
libVars == << width, height, iterations, lx, ly, asc, img, image, writes >>

\* the three options of the command line
Options == {"ascii", "text", "image"}

\* the ways the fallible steps of try_main can fail
ConfigErrors == {"default rejected"}
BuildErrors == {"settings file not found", "settings file unparseable"}
DeserializeErrors == {"setting is not a string"}
SaveErrors == {"image io error", "image encoding error", "image format unsupported"}

\* the process is started: main() is entered
InitDriver ==
  /\ task = "driver"
  /\ pc = "d_main"
  /\ width = WIDTH
  /\ height = HEIGHT
  /\ iterations = DRIVER_ITERATIONS
  /\ lx = 0
  /\ ly = 0
  /\ c = Origin
  /\ zx = F0p0
  /\ zy = F0p0
  /\ i = 0
  /\ nupd = 0
  /\ asc = -1
  /\ img = -1
  /\ image = << >>
  /\ writes = << >>
  /\ out = << >>
  /\ NoTests

\* a panic unwinds out of main: the message goes to stderr, the status is 101
Panic(step) ==
  /\ failed' = step
  /\ err' = Append(err, "panicked")
  /\ status' = 101
  /\ pc' = "exited"
  /\ UNCHANGED << args, result, out >>

\* `?` on an Err: try_main returns it to main
Propagate(step, e) ==
  /\ failed' = step
  /\ result' = << "Err", e >>
  /\ pc' = "d_main_err"
  /\ UNCHANGED << args, err, status, out >>

\* a step went well: on to the next one
Proceed(next) ==
  /\ pc' = next
  /\ UNCHANGED << args, failed, result, err, status, out >>

\* main: the logger is set up and try_main() is called
MainStart ==
  /\ task = "driver"
  /\ pc = "d_main"
  /\ Proceed("d_current_dir")
  /\ UNCHANGED << task, libVars >>
  /\ UNCHANGED evalVars
  /\ UNCHANGED testVars

\* `env::current_dir().unwrap()`
CurrentDir ==
  /\ task = "driver"
  /\ pc = "d_current_dir"
  /\ \/ Proceed("d_set_default")
     \/ Panic("current_dir")
  /\ UNCHANGED << task, libVars >>
  /\ UNCHANGED evalVars
  /\ UNCHANGED testVars

\* `CONFIG_BUILDER.write().unwrap().clone().set_default("verbose", "1")?` and the
\* two add_source calls; the lock is taken by this thread only and is never
\* poisoned
SetDefault ==
  /\ task = "driver"
  /\ pc = "d_set_default"
  /\ \/ Proceed("d_build")
     \/ \E e \in ConfigErrors : Propagate("set_default", e)
  /\ UNCHANGED << task, libVars >>
  /\ UNCHANGED evalVars
  /\ UNCHANGED testVars

\* `settings_builder.build_cloned()?`
BuildCloned ==
  /\ task = "driver"
  /\ pc = "d_build"
  /\ \/ Proceed("d_deserialize")
     \/ \E e \in BuildErrors : Propagate("build_cloned", e)
  /\ UNCHANGED << task, libVars >>
  /\ UNCHANGED evalVars
  /\ UNCHANGED testVars

\* `settings_new.try_deserialize::<HashMap<String, String>>()?`
TryDeserialize ==
  /\ task = "driver"
  /\ pc = "d_deserialize"
  /\ \/ Proceed("d_get_matches")
     \/ \E e \in DeserializeErrors : Propagate("try_deserialize", e)
  /\ UNCHANGED << task, libVars >>
  /\ UNCHANGED evalVars
  /\ UNCHANGED testVars

\* `command!()....get_matches()`: the options found, or clap ends the process
\* itself: usage on stderr and status 2 for a bad command line, the help text on
\* stdout and status 0 for --help
GetMatches ==
  /\ task = "driver"
  /\ pc = "d_get_matches"
  /\ \/ /\ \E found \in SUBSET Options : args' = found
        /\ pc' = "d_ascii"
        /\ UNCHANGED << failed, result, err, status, out >>
     \/ /\ failed' = "get_matches"
        /\ err' = Append(err, "usage")
        /\ status' = 2
        /\ pc' = "exited"
        /\ UNCHANGED << args, result, out >>
     \/ /\ out' = Append(out, "help")
        /\ status' = 0
        /\ pc' = "exited"
        /\ UNCHANGED << args, failed, result, err >>
  /\ UNCHANGED << task, libVars >>
  /\ UNCHANGED evalVars
  /\ UNCHANGED testVars

\* info!(...) writes a line of the log to stderr
Log(next) ==
  /\ err' = Append(err, "info")
  /\ pc' = next
  /\ UNCHANGED << args, failed, result, status, out >>

\* `if let Some(_ascii) = matches.get_one::<String>("ascii")`: the log line, the
\* progress bar and `collect_ascii()`
StepAscii ==
  /\ task = "driver"
  /\ pc = "d_ascii"
  /\ IF "ascii" \in args THEN Log("d_print") ELSE Proceed("d_text")
  /\ UNCHANGED << task, libVars >>
  /\ UNCHANGED evalVars
  /\ UNCHANGED testVars

\* `print_ascii(image)`; print! panics when stdout cannot be written
PrintAscii ==
  /\ task = "driver"
  /\ pc = "d_print"
  /\ \/ /\ out' = Append(out, "picture")
        /\ pc' = "d_text"
        /\ UNCHANGED << args, failed, result, err, status >>
     \/ Panic("print_ascii")
  /\ UNCHANGED << task, libVars >>
  /\ UNCHANGED evalVars
  /\ UNCHANGED testVars

\* `if let Some(_text) = matches.get_one::<String>("text")`: the log line, the
\* progress bar and `collect_ascii()`
StepText ==
  /\ task = "driver"
  /\ pc = "d_text"
  /\ IF "text" \in args THEN Log("d_write") ELSE Proceed("d_image")
  /\ UNCHANGED << task, libVars >>
  /\ UNCHANGED evalVars
  /\ UNCHANGED testVars

\* `write_ascii_to_file(image);`: the grid is written to the text file, one line
\* per row; the call is a statement, so no value comes back to try_main
WriteAscii ==
  /\ task = "driver"
  /\ pc = "d_write"
  /\ Proceed("d_image")
  /\ UNCHANGED << task, libVars >>
  /\ UNCHANGED evalVars
  /\ UNCHANGED testVars

\* `if let Some(_image) = matches.get_one::<String>("image")`: the log line, the
\* progress bar and `compose(WIDTH, HEIGHT, ITERATIONS)`
StepImage ==
  /\ task = "driver"
  /\ pc = "d_image"
  /\ IF "image" \in args THEN Log("d_save") ELSE Proceed("d_return")
  /\ UNCHANGED << task, libVars >>
  /\ UNCHANGED evalVars
  /\ UNCHANGED testVars

\* `.save(DEFAULT_IMAGE_PATH)?`
SaveImage ==
  /\ task = "driver"
  /\ pc = "d_save"
  /\ \/ Proceed("d_return")
     \/ \E e \in SaveErrors : Propagate("save", e)
  /\ UNCHANGED << task, libVars >>
  /\ UNCHANGED evalVars
  /\ UNCHANGED testVars

\* `Ok(())`: try_main returns, main falls off its end and the process exits with 0
ReturnOk ==
  /\ task = "driver"
  /\ pc = "d_return"
  /\ result' = << "Ok" >>
  /\ status' = 0
  /\ pc' = "exited"
  /\ UNCHANGED << args, failed, err, out >>
  /\ UNCHANGED << task, libVars >>
  /\ UNCHANGED evalVars
  /\ UNCHANGED testVars

\* main: `if let Err(e) = try_main() { eprintln!("{}", e);`
MainReport ==
  /\ task = "driver"
  /\ pc = "d_main_err"
  /\ err' = Append(err, result[2])
  /\ pc' = "d_main_exit"
  /\ UNCHANGED << args, failed, result, status, out >>
  /\ UNCHANGED << task, libVars >>
  /\ UNCHANGED evalVars
  /\ UNCHANGED testVars

\* main: `std::process::exit(1);`
MainExit ==
  /\ task = "driver"
  /\ pc = "d_main_exit"
  /\ status' = 1
  /\ pc' = "exited"
  /\ UNCHANGED << args, failed, result, err, out >>
  /\ UNCHANGED << task, libVars >>
  /\ UNCHANGED evalVars
  /\ UNCHANGED testVars

NextDriver ==
  \/ MainStart
  \/ CurrentDir
  \/ SetDefault
  \/ BuildCloned
  \/ TryDeserialize
  \/ GetMatches
  \/ StepAscii
  \/ PrintAscii
  \/ StepText
  \/ WriteAscii
  \/ StepImage
  \/ SaveImage
  \/ ReturnOk
  \/ MainReport
  \/ MainExit

SpecDriver == InitDriver /\ [][NextDriver]_vars

\* C11 (driver error path): whenever saving the image or an earlier step of
\* try_main fails, the process ends with try_main having returned the error as
\* a value (no panic), with that error as the last line on stderr and with a
\* non-zero status; and
\* a process that ends with status 0 had no failing step.
C11_ErrorPath ==
  (task = "driver" /\ pc = "exited") =>
    /\ failed \in {"current_dir", "set_default", "build_cloned", "try_deserialize", "save"} =>
         /\ result # "none"
         /\ result[1] = "Err"
         /\ Len(err) > 0
         /\ err[Len(err)] = result[2]
         /\ status # 0
    /\ status = 0 => failed = ""
====
